---- MODULE Spec2Model ----
(***************************************************************************)
(* The includeBytes transform (src/src/lib.rs): a VisitMut pass over a     *)
(* program tree.  visit_mut_callee raises the flag is_include_bytes when a *)
(* callee is the identifier includeBytes; visit_mut_expr, after visiting   *)
(* the children of a node, rewrites the node when the flag is raised and   *)
(* the node is a call expression.  A panic ends the transform.             *)
(***************************************************************************)
EXTENDS Naturals, Sequences, FiniteSets, TLC

(***************************************************************************)
(* Bounds of the checked input space.                                      *)
(***************************************************************************)
MaxStmts == 2
MaxArgs == 2

(***************************************************************************)
(* The tree.  Text is a sequence of one-character strings, so that paths   *)
(* can be joined and compared by prefix.                                   *)
(***************************************************************************)
Str(v) == [k |-> "Str", value |-> v]
Num == [k |-> "Num"]
Ident(s) == [k |-> "Ident", sym |-> s]
Member(o, p) == [k |-> "Member", obj |-> o, prop |-> p]
Call(c, a) == [k |-> "Call", callee |-> c, args |-> a]
Arrow(b) == [k |-> "Arrow", body |-> b]
Super == [k |-> "Super"]
ExprOrSpread(sp, e) == [spread |-> sp, expr |-> e]

None == [some |-> FALSE]
Some(x) == [some |-> TRUE, v |-> x]

Marker == "includeBytes"
\* the callee every processed call is given
EnvCalleeM == Ident("latin1_string_to_uint8array")
EnvCallee == Member(Ident("env"), "latin1_string_to_uint8array")

(***************************************************************************)
(* Addressing nodes.  A path starts with the statement index; below a call *)
(* i >= 1 selects the expression of argument i and 0 the callee; below a   *)
(* member expression 1 selects the object, below an arrow function 1       *)
(* selects the body.                                                       *)
(***************************************************************************)
RECURSIVE Get(_, _)
Get(n, p) ==
    IF p = <<>> THEN n
    ELSE IF n.k = "Call"
         THEN IF Head(p) = 0 THEN Get(n.callee, Tail(p))
              ELSE Get(n.args[Head(p)].expr, Tail(p))
         ELSE IF n.k = "Member" THEN Get(n.obj, Tail(p))
         ELSE Get(n.body, Tail(p))

RECURSIVE Put(_, _, _)
Put(n, p, new) ==
    IF p = <<>> THEN new
    ELSE IF n.k = "Call"
         THEN IF Head(p) = 0
              THEN [n EXCEPT !.callee = Put(n.callee, Tail(p), new)]
              ELSE [n EXCEPT !.args[Head(p)].expr =
                                Put(n.args[Head(p)].expr, Tail(p), new)]
         ELSE IF n.k = "Member"
              THEN [n EXCEPT !.obj = Put(n.obj, Tail(p), new)]
         ELSE [n EXCEPT !.body = Put(n.body, Tail(p), new)]

NodeAt(prog, p) == Get(prog[Head(p)], Tail(p))
WithNode(prog, p, new) == [prog EXCEPT ![Head(p)] = Put(prog[Head(p)], Tail(p), new)]

(***************************************************************************)
(* The order of the hooks.  visit_mut_expr first visits the children of    *)
(* its node and then runs its own body; for a call the children are the    *)
(* callee (visit_mut_callee, which does not descend) and then the          *)
(* arguments in order.                                                     *)
(***************************************************************************)
RECURSIVE visit_mut_children_with(_, _)
RECURSIVE VisitArgs(_, _, _)
Visit(n, p) == visit_mut_children_with(n, p) \o <<[hook |-> "expr", at |-> p]>>

VisitArgs(args, p, i) ==
    IF i > Len(args) THEN <<>>
    ELSE Visit(args[i].expr, p \o <<i>>) \o VisitArgs(args, p, i + 1)

visit_mut_children_with(n, p) ==
    CASE n.k = "Call" -> <<[hook |-> "callee", at |-> p]>> \o VisitArgs(n.args, p, 1)
      [] n.k = "Member" -> Visit(n.obj, p \o <<1>>)
      [] n.k = "Arrow" -> Visit(n.body, p \o <<1>>)
      [] OTHER -> <<>>

RECURSIVE VisitStmts(_, _)
VisitStmts(prog, i) ==
    IF i > Len(prog) THEN <<>>
    ELSE Visit(prog[i], <<i>>) \o VisitStmts(prog, i + 1)

fold_with(prog) == VisitStmts(prog, 1)

(***************************************************************************)
(* Path::new(cwd).join(p): an absolute p replaces cwd; otherwise p is      *)
(* appended, after a separator when cwd is not empty and does not end in   *)
(* one.                                                                    *)
(***************************************************************************)
Sep == "/"
IsAbsolute(p) == Len(p) > 0 /\ p[1] = Sep
Join(w, p) ==
    IF IsAbsolute(p) THEN p
    ELSE IF Len(w) > 0 /\ w[Len(w)] # Sep THEN w \o <<Sep>> \o p
    ELSE w \o p

(***************************************************************************)
(* The file system: a path is absent, present but not readable as text, or *)
(* a text file.                                                            *)
(***************************************************************************)
FileTexts == {<<"a">>, <<"c">>}
Absent == [kind |-> "absent"]
Unreadable == [kind |-> "unreadable"]
TextFile(t) == [kind |-> "text", text |-> t]
FileStates == {Absent, Unreadable} \cup {TextFile(t) : t \in FileTexts}

(***************************************************************************)
(* The input space.                                                        *)
(***************************************************************************)
PathLits == {<<"a">>, <<Sep, "b">>}
Cwds == {None, Some(<<Sep, "w">>), Some(<<Sep, "w", Sep>>)}
Leaves == {Str(v) : v \in PathLits} \cup {Num}
FlatCallees == {Ident(Marker), Ident("f"), Member(Ident("obj"), Marker)}

ExprOrSpreads(S) == {ExprOrSpread(FALSE, e) : e \in S}
\* argument lists of at most n arguments whose expressions come from S
ArgsOver(S, n) == UNION {[1..m -> ExprOrSpreads(S)] : m \in 0..n}

\* a call whose arguments hold no further call
SingleCalls == {Call(c, a) : c \in FlatCallees, a \in ArgsOver(Leaves, MaxArgs)}
SimpleCalls == {Call(c, a) : c \in FlatCallees, a \in ArgsOver(Leaves, 1)}
Inner == SimpleCalls \cup {Arrow(c) : c \in SimpleCalls}

\* a call with one inner call among its arguments, or with two calls as arguments
OneNestedArgs ==
    UNION {{[a EXCEPT ![i] = ExprOrSpread(FALSE, e)] :
               a \in [1..m -> ExprOrSpreads(Leaves)], i \in 1..m, e \in Inner} :
           m \in 1..MaxArgs}
NestedInArgs ==
    {Call(c, a) : c \in FlatCallees, a \in OneNestedArgs}
    \cup {Call(c, <<ExprOrSpread(FALSE, d), ExprOrSpread(FALSE, e)>>) :
             c \in FlatCallees, d \in SimpleCalls, e \in SimpleCalls}

\* a call whose callee is a call, or a member of a call
NestedInCallee ==
    {Call(c, a) : c \in SimpleCalls \cup {Member(s, "slice") : s \in SimpleCalls},
                  a \in ArgsOver(Leaves, MaxArgs)}

\* one call with the callee shapes and argument shapes the programs above leave out
WideLeaves == Leaves \cup {Ident("x"), Arrow(Num)}
WideCalls ==
    {Call(c, <<>>) : c \in FlatCallees \cup {Super}}
    \cup {Call(c, <<ExprOrSpread(sp, e)>>) :
             c \in FlatCallees \cup {Super}, sp \in BOOLEAN, e \in WideLeaves}
    \cup {Call(c, <<ExprOrSpread(sp, e), ExprOrSpread(FALSE, d)>>) :
             c \in {Ident(Marker), Super}, sp \in BOOLEAN, e \in WideLeaves, d \in Leaves}

\* several statements, each a simple call
StmtLists == UNION {[1..m -> SimpleCalls] : m \in 2..MaxStmts}

Programs ==
    {<<c>> : c \in SingleCalls \cup NestedInArgs \cup NestedInCallee \cup WideCalls}
    \cup StmtLists

(***************************************************************************)
(* State.                                                                  *)
(***************************************************************************)
VARIABLES
    program,            \* the tree being transformed
    input,              \* the tree the host handed to this pass
    cwd,                \* TransformVisitor.cwd
    is_include_bytes,   \* TransformVisitor.is_include_bytes
    todo,               \* the hooks the traversal has still to run (a rewrite touches only
                        \* a callee and a literal whose hooks have run, so the order is
                        \* that of the tree the pass was given)
    outcome,            \* "running", "ok" (tree returned) or the panic
    fs,                 \* the file system, as far as it has been looked at
    checked,            \* paths tested with exists() in this pass
    reads,              \* paths given to read_to_string in this pass
    recognised,         \* calls whose callee hook raised the flag in this pass
    rewritten,          \* calls whose string literal was replaced in this pass
    pass                \* 1: the host's pass, 2: a second pass over its output

vars == <<program, input, cwd, is_include_bytes, todo, outcome, fs, checked,
          reads, recognised, rewritten, pass>>

Failures == {"MissingArgument", "InvalidArgumentType", "MissingCwd",
             "FileNotFound", "ReadFailure"}

\* a panic unwinds the whole transform: no hook runs after it
RunningM == outcome # "ok"
Running == outcome = "running"

\* TransformVisitor::new and the start of fold_with
Init ==
    /\ program \in Programs
    /\ input = program
    /\ cwd \in Cwds
    /\ is_include_bytes = FALSE
    /\ todo = fold_with(program)
    /\ outcome = "running"
    /\ fs = <<>>
    /\ checked = {}
    /\ reads = {}
    /\ recognised = {}
    /\ rewritten = {}
    /\ pass = 1

IsMarkerCalleeM(c) == c.k = "Ident"
IsMarkerCallee(c) == c.k = "Ident" /\ c.sym = Marker

visit_mut_callee ==
    /\ Running
    /\ todo # <<>>
    /\ Head(todo).hook = "callee"
    /\ LET at == Head(todo).at
           callee == NodeAt(program, at).callee
       IN  /\ is_include_bytes' = (IF IsMarkerCallee(callee) THEN TRUE ELSE is_include_bytes)
           /\ recognised' = (IF IsMarkerCallee(callee) THEN recognised \cup {at} ELSE recognised)
    /\ todo' = Tail(todo)
    /\ UNCHANGED <<program, input, cwd, outcome, fs, checked, reads, rewritten, pass>>

\* the two early returns of visit_mut_expr
ConsumesM(flag, n) == flag /\ n.k = "Call" /\ n.callee.k = "Ident" /\ n.callee.sym = Marker
Consumes(flag, n) == flag /\ n.k = "Call"

\* call.callee = env.latin1_string_to_uint8array, before any check
ReplaceCalleeM(prog, at) == prog
ReplaceCallee(prog, at) ==
    WithNode(prog, at, [NodeAt(prog, at) EXCEPT !.callee = EnvCallee])

\* the checks that need no file system, in the order of the code
ArgCheckM(n, c) ==
    IF ~c.some THEN "MissingCwd"
    ELSE IF n.args = <<>> THEN "MissingArgument"
    ELSE IF n.args[1].expr.k # "Str" THEN "InvalidArgumentType"
    ELSE "pass"
ArgCheck(n, c) ==
    IF n.args = <<>> THEN "MissingArgument"
    ELSE IF n.args[1].expr.k # "Str" THEN "InvalidArgumentType"
    ELSE IF ~c.some THEN "MissingCwd"
    ELSE "pass"

\* self.is_include_bytes = false, the last statement of visit_mut_expr
ClearedFlagM == TRUE
ClearedFlag == FALSE

\* *string = contents.into(): the literal in the first argument slot is overwritten
SubstituteM(prog, at, text) ==
    WithNode(prog, at, [NodeAt(prog, at) EXCEPT !.args = <<ExprOrSpread(FALSE, Str(text))>>])
Substitute(prog, at, text) == WithNode(prog, at \o <<1>>, Str(text))

\* the file system answers the same for a path it was asked about before
Look(path, st) ==
    /\ st \in FileStates
    /\ path \in DOMAIN fs => st = fs[path]
    /\ fs' = [q \in DOMAIN fs \cup {path} |-> IF q = path THEN st ELSE fs[q]]

Panic(kind, tree) ==
    /\ outcome' = kind
    /\ program' = tree
    /\ UNCHANGED <<is_include_bytes, rewritten>>

\* the body of visit_mut_expr after visit_mut_children_with
visit_mut_expr ==
    /\ Running
    /\ todo # <<>>
    /\ Head(todo).hook = "expr"
    /\ todo' = Tail(todo)
    /\ UNCHANGED <<input, cwd, recognised, pass>>
    /\ LET at == Head(todo).at
           n == NodeAt(program, at)
           replaced == ReplaceCallee(program, at)
       IN  IF ~Consumes(is_include_bytes, n)
           THEN UNCHANGED <<program, outcome, is_include_bytes, fs, checked, reads, rewritten>>
           ELSE IF ArgCheck(n, cwd) # "pass"
           THEN Panic(ArgCheck(n, cwd), replaced) /\ UNCHANGED <<fs, checked, reads>>
           ELSE LET path == Join(cwd.v, n.args[1].expr.value)
                IN  /\ checked' = checked \cup {path}
                    /\ \E st \in FileStates :
                         /\ Look(path, st)
                         /\ IF st.kind = "absent"
                            THEN Panic("FileNotFound", replaced) /\ UNCHANGED reads
                            ELSE /\ reads' = reads \cup {path}
                                 /\ IF st.kind = "unreadable"
                                    THEN Panic("ReadFailure", replaced)
                                    ELSE /\ program' = Substitute(replaced, at, st.text)
                                         /\ is_include_bytes' = ClearedFlag
                                         /\ rewritten' = rewritten \cup {at}
                                         /\ UNCHANGED outcome

\* fold_with returns the tree to process_transform, which returns it to the host
process_transform ==
    /\ Running
    /\ todo = <<>>
    /\ outcome' = "ok"
    /\ UNCHANGED <<program, input, cwd, is_include_bytes, todo, fs, checked, reads,
                   recognised, rewritten, pass>>

\* the host runs process_transform again, on the tree the first pass returned
Rerun ==
    /\ outcome = "ok"
    /\ pass = 1
    /\ pass' = 2
    /\ input' = program
    /\ todo' = fold_with(program)
    /\ is_include_bytes' = FALSE
    /\ outcome' = "running"
    /\ checked' = {}
    /\ reads' = {}
    /\ recognised' = {}
    /\ rewritten' = {}
    /\ UNCHANGED <<program, cwd, fs>>

Next == visit_mut_callee \/ visit_mut_expr \/ process_transform \/ Rerun

Spec == Init /\ [][Next]_vars

(***************************************************************************)
(* Vocabulary of the properties.                                           *)
(***************************************************************************)
RECURSIVE Paths(_, _)
\* the paths of all nodes of a tree, those in callee position included
Paths(n, p) ==
    {p} \cup
    CASE n.k = "Call" ->
            Paths(n.callee, p \o <<0>>)
            \cup UNION {Paths(n.args[i].expr, p \o <<i>>) : i \in 1..Len(n.args)}
      [] n.k = "Member" -> Paths(n.obj, p \o <<1>>)
      [] n.k = "Arrow" -> Paths(n.body, p \o <<1>>)
      [] OTHER -> {}
ProgPaths(prog) == UNION {Paths(prog[i], <<i>>) : i \in 1..Len(prog)}

IsMarkerCall(n) == n.k = "Call" /\ n.callee = [k |-> "Ident", sym |-> "includeBytes"]
MarkerCalls(prog) == {p \in ProgPaths(prog) : IsMarkerCall(NodeAt(prog, p))}
CallPaths(prog) == {p \in ProgPaths(prog) : NodeAt(prog, p).k = "Call"}

ExpectedCallee ==
    [k |-> "Member", obj |-> [k |-> "Ident", sym |-> "env"],
     prop |-> "latin1_string_to_uint8array"]
\* the call n as includeBytes is documented to leave it
Rewritten(n, text) ==
    [n EXCEPT !.callee = ExpectedCallee, !.args[1].expr = [k |-> "Str", value |-> text]]

HasStrArg(n) == n.args # <<>> /\ n.args[1].expr.k = "Str"
\* the file a marker call with a string literal names
FileOf(n) == Join(cwd.v, n.args[1].expr.value)
KnownText(path) == path \in DOMAIN fs /\ fs[path].kind = "text"
IsPrefix(w, p) == Len(w) <= Len(p) /\ SubSeq(p, 1, Len(w)) = w

\* includeBytes("<literal>") with nothing else in the argument list
IsPlainMarkerCall(n) == IsMarkerCall(n) /\ Len(n.args) = 1 /\ n.args[1].expr.k = "Str"

(***************************************************************************)
(* C1: when the only marker call of the program is a statement            *)
(* includeBytes(P), the working directory is present and the file at      *)
(* join(cwd, P) is a text file with content C, the pass does not fail and *)
(* the tree it returns is the input with that call's callee replaced by   *)
(* env.latin1_string_to_uint8array and its argument by the literal C;     *)
(* nothing else differs.                                                   *)
(***************************************************************************)
C1_Case(i) ==
    /\ MarkerCalls(input) = {<<i>>}
    /\ IsPlainMarkerCall(input[i])
    /\ cwd.some

C1_SoleStatementCallRewritten ==
    \A i \in 1..Len(input) :
        C1_Case(i) =>
            /\ KnownText(FileOf(input[i])) => outcome \notin Failures
            /\ outcome = "ok" =>
                   /\ KnownText(FileOf(input[i]))
                   /\ program = [input EXCEPT
                                    ![i] = Rewritten(input[i], fs[FileOf(input[i])].text)]

C1_Witness ==
    /\ outcome = "ok"
    /\ pass = 1
    /\ Len(input) = 2
    /\ C1_Case(1)
    /\ program # input
    /\ program[1].args[1].expr.value # input[1].args[1].expr.value

(***************************************************************************)
(* C2: after a successful pass every marker call of the input whose first *)
(* argument is a string literal naming an existing text file has been     *)
(* rewritten, wherever it stands in the tree.                              *)
(***************************************************************************)
C2_EveryMarkerCallRewritten ==
    (outcome = "ok" /\ cwd.some) =>
        \A p \in MarkerCalls(input) :
            LET n == NodeAt(input, p)
            IN  (HasStrArg(n) /\ KnownText(FileOf(n))) =>
                    NodeAt(program, p) = Rewritten(n, fs[FileOf(n)].text)

(***************************************************************************)
(* C3: a program without any call whose callee is the identifier          *)
(* includeBytes is returned unchanged, whatever the working directory: no *)
(* failure, flag never set, no file looked at.                             *)
(***************************************************************************)
C3_NoMarkerNoEffect ==
    MarkerCalls(input) = {} =>
        /\ outcome \notin Failures
        /\ program = input
        /\ ~is_include_bytes
        /\ recognised = {}
        /\ checked = {}
        /\ reads = {}

C3_Witness ==
    /\ outcome = "ok"
    /\ pass = 1
    /\ ~cwd.some
    /\ MarkerCalls(input) = {}
    /\ \E p \in CallPaths(input) : NodeAt(input, p).callee.k = "Ident" /\ HasStrArg(NodeAt(input, p))

(***************************************************************************)
(* C4: with k >= 2 statements includeBytes(P1); ...; includeBytes(Pk) and *)
(* every file a text file, the i-th call is rewritten with the content of *)
(* the file at join(cwd, Pi); the flag is clear whenever the traversal    *)
(* enters a statement.                                                     *)
(***************************************************************************)
C4_Case ==
    /\ Len(input) >= 2
    /\ \A i \in 1..Len(input) : IsPlainMarkerCall(input[i])
    /\ cwd.some

C4_EachStatementOwnFile ==
    C4_Case =>
        /\ (\A path \in DOMAIN fs : fs[path].kind = "text") => outcome \notin Failures
        /\ outcome = "ok" =>
               \A i \in 1..Len(input) :
                   /\ KnownText(FileOf(input[i]))
                   /\ program[i] = Rewritten(input[i], fs[FileOf(input[i])].text)
        /\ (outcome = "running" /\ todo # <<>> /\ Head(todo).hook = "callee"
                /\ Len(Head(todo).at) = 1) =>
               ~is_include_bytes

C4_Witness ==
    /\ outcome = "ok"
    /\ pass = 1
    /\ C4_Case
    /\ input[1] # input[2]
    /\ program[1].args[1].expr.value # program[2].args[1].expr.value

(***************************************************************************)
(* C5: a second pass over the tree a successful pass returned, with the   *)
(* same working directory and file system, does not fail, changes         *)
(* nothing, never sets the flag and looks at no file.                      *)
(***************************************************************************)
C5_SecondPassNoOp ==
    pass = 2 =>
        /\ outcome \notin Failures
        /\ program = input
        /\ ~is_include_bytes
        /\ recognised = {}
        /\ checked = {}
        /\ reads = {}

\* the nodes whose visit_mut_expr hook the traversal of prog runs
Visited(prog) ==
    {fold_with(prog)[j].at : j \in {h \in 1..Len(fold_with(prog)) : fold_with(prog)[h].hook = "expr"}}

(***************************************************************************)
(* C6 as stated: when the only marker call of the program has no          *)
(* arguments, the pass fails with MissingArgument and the tree at the     *)
(* failure is the input tree (the callee is still includeBytes).           *)
(***************************************************************************)
C6_Case(p) ==
    /\ MarkerCalls(input) = {p}
    /\ p \in Visited(input)
    /\ NodeAt(input, p).args = <<>>

C6_TreeUntouchedAtFailure ==
    \A p \in MarkerCalls(input) :
        (C6_Case(p) /\ outcome \in Failures) =>
            /\ outcome = "MissingArgument"
            /\ program = input

(***************************************************************************)
(* C6 as amended: whenever the hook of a marker call without arguments    *)
(* runs, the pass fails with MissingArgument, and in the tree at the      *)
(* failure that call's callee is already env.latin1_string_to_uint8array  *)
(* while nothing else has changed; when such a call is the only marker    *)
(* call of the program, no tree is returned and the tree at the failure   *)
(* is the input with that one callee replaced.                             *)
(***************************************************************************)
C6_Step ==
    (/\ outcome = "running"
     /\ todo # <<>>
     /\ Head(todo).hook = "expr"
     /\ IsMarkerCall(NodeAt(program, Head(todo).at))
     /\ NodeAt(program, Head(todo).at).args = <<>>) =>
        /\ outcome' = "MissingArgument"
        /\ program' = WithNode(program, Head(todo).at,
                               [NodeAt(program, Head(todo).at) EXCEPT !.callee = ExpectedCallee])

C6_SoleCall ==
    \A p \in MarkerCalls(input) :
        C6_Case(p) =>
            /\ outcome # "ok"
            /\ outcome \in Failures =>
                   /\ outcome = "MissingArgument"
                   /\ program = WithNode(input, p,
                                         [NodeAt(input, p) EXCEPT !.callee = ExpectedCallee])
                   /\ program # input

C6_CalleeReplacedBeforeFailure == [][C6_Step]_vars /\ []C6_SoleCall

C6_Witness ==
    /\ outcome = "MissingArgument"
    /\ pass = 1
    /\ Len(input) = 2
    /\ C6_Case(<<1>>)
    /\ program[1].callee = ExpectedCallee

(***************************************************************************)
(* C7: when the only marker call of the program is a statement whose      *)
(* first argument is not a string literal, the pass does not succeed and  *)
(* fails with no other kind than InvalidArgumentType.                      *)
(***************************************************************************)
C7_NonStringArgumentFails ==
    \A i \in 1..Len(input) :
        (/\ MarkerCalls(input) = {<<i>>}
         /\ input[i].args # <<>>
         /\ input[i].args[1].expr.k # "Str"
         /\ pass = 1) =>
            outcome \in {"running", "InvalidArgumentType"}

(***************************************************************************)
(* C8: once a failure has been raised nothing happens any more: no hook   *)
(* runs, no call is rewritten, no file is looked at, no tree is returned. *)
(***************************************************************************)
C8_Step == outcome \in Failures => vars' = vars

C8_FailureAborts == [][C8_Step]_vars

C8_Witness ==
    /\ outcome \in Failures
    /\ pass = 1
    /\ Len(input) = 2
    /\ IsPlainMarkerCall(input[1])
    /\ IsPlainMarkerCall(input[2])
    /\ Len(todo) = 3
    /\ Head(todo) = [hook |-> "callee", at |-> <<2>>]
    /\ program[2] = input[2]

(***************************************************************************)
(* C9: every path tested for existence or read lies under the working     *)
(* directory: the working directory is a prefix of it.                     *)
(***************************************************************************)
C9_ResolvedUnderCwd ==
    \A path \in checked \cup reads : cwd.some /\ IsPrefix(cwd.v, path)

(***************************************************************************)
(* C10: a call processed with the flag set fails with the first of        *)
(* MissingArgument (no argument), InvalidArgumentType (first argument not *)
(* a string literal), MissingCwd (no working directory), FileNotFound     *)
(* (path absent), ReadFailure (path present, not readable as text) whose  *)
(* condition holds, and is rewritten exactly when none holds; the first   *)
(* three look at no file, FileNotFound reads none.                         *)
(***************************************************************************)
C10_Expected(n) ==
    IF n.args = <<>> THEN "MissingArgument"
    ELSE IF n.args[1].expr.k # "Str" THEN "InvalidArgumentType"
    ELSE IF ~cwd.some THEN "MissingCwd"
    ELSE IF fs'[FileOf(n)].kind = "absent" THEN "FileNotFound"
    ELSE IF fs'[FileOf(n)].kind = "unreadable" THEN "ReadFailure"
    ELSE "running"

C10_Step ==
    (/\ outcome = "running"
     /\ todo # <<>>
     /\ Head(todo).hook = "expr"
     /\ is_include_bytes
     /\ NodeAt(program, Head(todo).at).k = "Call") =>
        /\ outcome' = C10_Expected(NodeAt(program, Head(todo).at))
        /\ outcome' \in {"MissingArgument", "InvalidArgumentType", "MissingCwd"} =>
               fs' = fs /\ checked' = checked /\ reads' = reads
        /\ outcome' = "FileNotFound" => reads' = reads
        /\ (outcome' = "running") = (Head(todo).at \in rewritten')

C10_ChecksInOrder == [][C10_Step]_vars

C10_Witness ==
    /\ outcome = "InvalidArgumentType"
    /\ ~cwd.some
    /\ pass = 1

\* the hooks that have run in this pass, in order
Ran == SubSeq(fold_with(input), 1, Len(fold_with(input)) - Len(todo))
\* the hook that runs next
AtHook(h) == outcome = "running" /\ todo # <<>> /\ Head(todo).hook = h
Here == NodeAt(program, Head(todo).at)
\* the calls below (and including) the node at p
CallsUnder(prog, p) ==
    {q \in CallPaths(prog) : Len(q) >= Len(p) /\ SubSeq(q, 1, Len(p)) = p}

(***************************************************************************)
(* C11: when every marker call is a statement of its own and has no call  *)
(* among its arguments, a call processed with the flag set is the call    *)
(* whose callee hook set it, and a successful pass rewrites exactly the   *)
(* calls whose callee was the identifier includeBytes.                     *)
(***************************************************************************)
C11_Case ==
    \A p \in MarkerCalls(input) : Len(p) = 1 /\ CallsUnder(input, p) = {p}

C11_Step ==
    (C11_Case /\ AtHook("expr") /\ is_include_bytes /\ Here.k = "Call") =>
        /\ IsMarkerCall(NodeAt(input, Head(todo).at))
        /\ Head(todo).at \in recognised
        /\ \E j \in 1..Len(Ran) :
               /\ Ran[j] = [hook |-> "callee", at |-> Head(todo).at]
               /\ \A h \in (j + 1)..Len(Ran) :
                      Ran[h].hook = "expr" /\ NodeAt(input, Ran[h].at).k # "Call"

C11_Final ==
    (C11_Case /\ outcome = "ok") =>
        /\ rewritten = MarkerCalls(input)
        /\ recognised = MarkerCalls(input)

C11_SetterIsRewritten == [][C11_Step]_vars /\ []C11_Final

C11_Witness ==
    /\ outcome = "ok"
    /\ pass = 1
    /\ C11_Case
    /\ Len(input) = 2
    /\ MarkerCalls(input) = {<<2>>}
    /\ rewritten = {<<2>>}
    /\ input[1].callee.k = "Ident"
    /\ HasStrArg(input[1])

(***************************************************************************)
(* C12: the flag is not tied to the call that set it.  A call whose hook  *)
(* runs with the flag set is processed (callee replaced, then rewritten   *)
(* or a failure) whatever its own callee was; the hook of an expression   *)
(* that is no call leaves a set flag set; a call whose hook runs with the *)
(* flag clear is left as it is, also when its callee is includeBytes.     *)
(***************************************************************************)
C12_Step ==
    AtHook("expr") =>
        /\ (is_include_bytes /\ Here.k = "Call") =>
               /\ NodeAt(program', Head(todo).at).callee = ExpectedCallee
               /\ outcome' \in Failures \/ Head(todo).at \in rewritten'
        /\ (is_include_bytes /\ Here.k # "Call") =>
               is_include_bytes' /\ program' = program /\ outcome' = outcome
        /\ ~is_include_bytes =>
               ~is_include_bytes' /\ program' = program /\ outcome' = outcome

C12_NextCallConsumesFlag == [][C12_Step]_vars

\* includeBytes(f("p")): f("p") is rewritten, the marker call is returned as it was
C12_Witness ==
    /\ outcome = "ok"
    /\ pass = 1
    /\ Len(input) = 1
    /\ IsMarkerCall(input[1])
    /\ Len(input[1].args) = 1
    /\ input[1].args[1].expr.k = "Call"
    /\ input[1].args[1].expr.callee = [k |-> "Ident", sym |-> "f"]
    /\ rewritten = {<<1, 1>>}
    /\ program[1].callee = input[1].callee
    /\ program[1].args[1].expr.callee = ExpectedCallee

(***************************************************************************)
(* C13: exactly one call consumes each setting of the flag: a successful  *)
(* pass rewrites as many calls as its callee hook recognised, and the     *)
(* flag is cleared first when a call is processed, so it is clear when a  *)
(* check of that call fails.                                               *)
(***************************************************************************)
C13_OneConsumerPerSetting ==
    /\ outcome = "ok" => Cardinality(recognised) = Cardinality(rewritten)
    /\ outcome \in Failures => ~is_include_bytes

(***************************************************************************)
(* C14: the flag is clear when the pass is constructed and whenever it    *)
(* returns a tree, nested marker calls included; a pass starts with a     *)
(* clear flag whatever an earlier pass did, so the flag is set only after *)
(* this pass recognised a marker callee.                                   *)
(***************************************************************************)
C14_FlagClearAtReturn ==
    /\ outcome = "ok" => ~is_include_bytes
    /\ Ran = <<>> => ~is_include_bytes
    /\ is_include_bytes => recognised # {}

C14_Witness ==
    /\ outcome = "ok"
    /\ pass = 1
    /\ \E p \in recognised : Len(p) > 1
    /\ \E p \in recognised : Len(p) = 1
    /\ rewritten # {}

(***************************************************************************)
(* C15: the traversal runs the general-expression hook exactly once on    *)
(* every expression of the tree, those in or below a callee position      *)
(* included, and the callee hook exactly once on every call.               *)
(***************************************************************************)
\* the expressions of a tree: every node but a callee that is no expression
ExprPaths(prog) == {p \in ProgPaths(prog) : NodeAt(prog, p).k # "Super"}
TimesRan(h, p) == Cardinality({j \in 1..Len(Ran) : Ran[j] = [hook |-> h, at |-> p]})

C15_EveryNodeVisitedOnce ==
    outcome = "ok" =>
        /\ \A p \in ExprPaths(input) : TimesRan("expr", p) = 1
        /\ \A p \in CallPaths(input) : TimesRan("callee", p) = 1

(***************************************************************************)
(* C16: the callee hook sets the flag exactly when the callee is the      *)
(* identifier includeBytes; for every other callee the flag keeps its     *)
(* value, set or clear.  The hook changes nothing else.                    *)
(***************************************************************************)
C16_Step ==
    AtHook("callee") =>
        /\ is_include_bytes' = (is_include_bytes \/ IsMarkerCall(Here))
        /\ program' = program
        /\ outcome' = outcome

C16_CalleeHookSetsOnlyForMarker == [][C16_Step]_vars

\* the callee hook has just run on obj.includeBytes with the flag set, and left it set
C16_Witness ==
    /\ outcome = "running"
    /\ Ran # <<>>
    /\ Ran[Len(Ran)].hook = "callee"
    /\ NodeAt(input, Ran[Len(Ran)].at).callee.k = "Member"
    /\ NodeAt(input, Ran[Len(Ran)].at).callee.prop = "includeBytes"
    /\ is_include_bytes

(***************************************************************************)
(* C17: a hook that changes the tree changes one call only, and of that   *)
(* call only the callee and the string literal of the first argument:     *)
(* the number of arguments, the spread marker of the first argument and   *)
(* every later argument stay as they were.                                 *)
(***************************************************************************)
C17_Frame(n, m) ==
    /\ m.k = "Call"
    /\ Len(m.args) = Len(n.args)
    /\ \A i \in 2..Len(n.args) : m.args[i] = n.args[i]
    /\ n.args # <<>> =>
           /\ m.args[1].spread = n.args[1].spread
           /\ m.args[1].expr # n.args[1].expr =>
                  n.args[1].expr.k = "Str" /\ m.args[1].expr.k = "Str"

C17_Step ==
    (AtHook("expr") /\ program' # program) =>
        /\ Here.k = "Call"
        /\ WithNode(program', Head(todo).at, Here) = program
        /\ C17_Frame(Here, NodeAt(program', Head(todo).at))

C17_RewriteTouchesCalleeAndLiteral == [][C17_Step]_vars

C17_Witness ==
    /\ outcome = "ok"
    /\ pass = 1
    /\ rewritten = {<<1>>}
    /\ Len(input[1].args) = 2
    /\ input[1].args[1].spread
    /\ program[1].args[1].spread
    /\ program[1].args[1].expr # input[1].args[1].expr
    /\ program[1].args[2] = input[1].args[2]

(***************************************************************************)
(* C18: without a working directory the pass still returns, unchanged,    *)
(* every program in which no call is processed; MissingCwd is raised only *)
(* by the hook of a call processed with the flag set whose first argument *)
(* is a string literal, not at construction and not with the flag clear.  *)
(***************************************************************************)
C18_Step ==
    (outcome # "MissingCwd" /\ outcome' = "MissingCwd") =>
        /\ AtHook("expr")
        /\ is_include_bytes
        /\ Here.k = "Call"
        /\ HasStrArg(Here)
        /\ ~cwd.some

C18_Absent ==
    ~cwd.some =>
        /\ Ran = <<>> => outcome = "running"
        /\ outcome = "ok" => program = input
        /\ recognised = {} => outcome \notin Failures /\ program = input

C18_MissingCwdOnlyWhenNeeded == [][C18_Step]_vars /\ []C18_Absent

\* f("a"); includeBytes("a") without cwd: the first hook passes, the second raises
C18_Witness ==
    /\ outcome = "MissingCwd"
    /\ pass = 1
    /\ Len(input) = 2
    /\ ~IsMarkerCall(input[1])
    /\ HasStrArg(input[1])
    /\ IsPlainMarkerCall(input[2])
    /\ program[1] = input[1]

(***************************************************************************)
(* C19: every pass ends, in one of six outcomes: the tree returned with   *)
(* the flag clear, or one of the five failures.  The traversal never ends *)
(* with the flag set, an outcome once reached stays, and a failure is     *)
(* raised only in a pass that set the flag.                                *)
(***************************************************************************)
\* the traversal is synchronous: a hook that can run does run
FairSpec == Spec /\ WF_vars(visit_mut_callee \/ visit_mut_expr \/ process_transform)

C19_Outcomes ==
    /\ outcome \in {"running", "ok"} \cup Failures
    /\ outcome = "ok" => ~is_include_bytes /\ todo = <<>>
    /\ (outcome = "running" /\ todo = <<>>) => ~is_include_bytes
    /\ outcome \in Failures => recognised # {}

C19_Final == (outcome # "running" /\ pass' = pass) => outcome' = outcome

C19_Terminates ==
    /\ (outcome = "running") ~> (outcome # "running")
    /\ []C19_Outcomes
    /\ [][C19_Final]_vars

\* a pass ended by a failure with hooks still to run
C19_Witness ==
    /\ outcome = "FileNotFound"
    /\ pass = 1
    /\ recognised # {}
    /\ todo # <<>>

====
